---------------------------- MODULE Spec2Model ----------------------------
(***************************************************************************)
(* Iron sealed tokens (iron-go): the message codec (Unpack / Base / Pack), *)
(* the vault (Seal / Unseal) and the padding, modelled from the Go source. *)
(*                                                                         *)
(* Two builds of the package are under src/:                               *)
(*   "part_002" : src/unnamed/part_002 + src/support.go  (Seal and Unseal) *)
(*   "iron.go"  : src/iron.go + src/unnamed/part_000     (Unseal only)     *)
(* A string is a sequence of bytes (0..255); a byte slice likewise.        *)
(***************************************************************************)
EXTENDS Integers, Sequences, FiniteSets, TLC

(***************************************************************************)
(* Bounds of the model.                                                    *)
(***************************************************************************)
\* longest payload handed to Seal, in bytes
MaxPayload == 2
\* largest clock reading and largest TTL, in milliseconds
MaxMs == 4
\* most '*'-separated fields of a crafted input string
MaxParts == 9

(***************************************************************************)
(* Program constants.                                                      *)
(***************************************************************************)
\* '*', the field delimiter
delimiter == 42
\* '\t', the padding byte
padder == 9
\* time.Millisecond, in nanoseconds
Millisecond == 1000000
\* "Fe26." + macFormatVersion
macPrefix == <<70, 101, 50, 54, 46, 50>>

(***************************************************************************)
(* Generic sequence helpers (Go's strings / bytes packages).               *)
(***************************************************************************)
RECURSIVE SumWeighted(_, _, _)
\* sum of (2i-1) * s[i] for i in lo..hi, by halves: the checksum the toy
\* PRF and hash are built on
SumWeighted(s, lo, hi) ==
  IF lo > hi THEN 0
  ELSE IF lo = hi THEN (2 * lo - 1) * s[lo]
  ELSE SumWeighted(s, lo, (lo + hi) \div 2)
         + SumWeighted(s, (lo + hi) \div 2 + 1, hi)

RECURSIVE Split(_)
\* strings.Split(s, "*"): the fields between the delimiters, at least one
Split(s) ==
  IF \A i \in 1..Len(s) : s[i] # delimiter
    THEN <<s>>
    ELSE LET k == CHOOSE i \in 1..Len(s) :
                    s[i] = delimiter /\ \A j \in 1..(i - 1) : s[j] # delimiter
         IN  <<SubSeq(s, 1, k - 1)>> \o Split(SubSeq(s, k + 1, Len(s)))

RECURSIVE Join(_)
\* strings.Join(parts, "*")
Join(parts) ==
  IF Len(parts) = 0 THEN <<>>
  ELSE IF Len(parts) = 1 THEN parts[1]
  ELSE parts[1] \o <<delimiter>> \o Join(Tail(parts))

RECURSIVE TrimRight(_)
\* bytes.TrimRight(data, "\t")
TrimRight(data) ==
  IF Len(data) > 0 /\ data[Len(data)] = padder
    THEN TrimRight(SubSeq(data, 1, Len(data) - 1))
    ELSE data

\* bytes.Repeat([]byte{padder}, n)
Repeat(n) == [i \in 1..n |-> padder]

(***************************************************************************)
(* encoding/base64, RawURLEncoding (no padding, not strict).               *)
(***************************************************************************)
\* the i-th character of the URL alphabet, i in 0..63
B64Char(i) ==
  IF i < 26 THEN 65 + i
  ELSE IF i < 52 THEN 97 + (i - 26)
  ELSE IF i < 62 THEN 48 + (i - 52)
  ELSE IF i = 62 THEN 45 ELSE 95

\* decodeMap: the value of a character, -1 when it is not in the alphabet
B64Val(c) ==
  IF c >= 65 /\ c <= 90 THEN c - 65
  ELSE IF c >= 97 /\ c <= 122 THEN c - 97 + 26
  ELSE IF c >= 48 /\ c <= 57 THEN c - 48 + 52
  ELSE IF c = 45 THEN 62
  ELSE IF c = 95 THEN 63 ELSE -1

RECURSIVE EncodeToString(_)
\* base64.RawURLEncoding.EncodeToString
EncodeToString(b) ==
  IF Len(b) = 0 THEN <<>>
  ELSE IF Len(b) = 1 THEN
    <<B64Char(b[1] \div 4), B64Char((b[1] % 4) * 16)>>
  ELSE IF Len(b) = 2 THEN
    <<B64Char(b[1] \div 4),
      B64Char((b[1] % 4) * 16 + b[2] \div 16),
      B64Char((b[2] % 16) * 4)>>
  ELSE
    <<B64Char(b[1] \div 4),
      B64Char((b[1] % 4) * 16 + b[2] \div 16),
      B64Char((b[2] % 16) * 4 + b[3] \div 64),
      B64Char(b[3] % 64)>> \o EncodeToString(SubSeq(b, 4, Len(b)))

RECURSIVE SkipNewlines(_)
\* decodeQuantum ignores '\r' and '\n' wherever they stand
SkipNewlines(s) ==
  IF Len(s) = 0 THEN <<>>
  ELSE IF s[1] = 10 \/ s[1] = 13 THEN SkipNewlines(Tail(s))
  ELSE <<s[1]>> \o SkipNewlines(Tail(s))

RECURSIVE DecodeQuanta(_)
\* the bytes of a string of alphabet characters whose length mod 4 is not 1;
\* the bits of a last partial quantum beyond its whole bytes are dropped
DecodeQuanta(s) ==
  IF Len(s) = 0 THEN <<>>
  ELSE IF Len(s) = 2 THEN
    <<(B64Val(s[1]) * 64 + B64Val(s[2])) \div 16>>
  ELSE IF Len(s) = 3 THEN
    LET n == B64Val(s[1]) * 4096 + B64Val(s[2]) * 64 + B64Val(s[3])
    IN  <<n \div 1024, (n \div 4) % 256>>
  ELSE
    LET n == B64Val(s[1]) * 262144 + B64Val(s[2]) * 4096
             + B64Val(s[3]) * 64 + B64Val(s[4])
    IN  <<n \div 65536, (n \div 256) % 256, n % 256>>
        \o DecodeQuanta(SubSeq(s, 5, Len(s)))

\* base64.RawURLEncoding.DecodeString: [ok, bytes].  The bytes decoded before
\* an error are left out: Unpack returns without reading them.
DecodeString(src) ==
  LET s == SkipNewlines(src)
  IN  IF (\E i \in 1..Len(s) : B64Val(s[i]) = -1) \/ Len(s) % 4 = 1
        THEN [ok |-> FALSE, bytes |-> <<>>]
        ELSE [ok |-> TRUE, bytes |-> DecodeQuanta(s)]

\* base64decodeInto: the decoded bytes and whether decoding succeeded
base64decodeInto(src) == DecodeString(src)

(***************************************************************************)
(* int64.  A value is its eight bytes, least significant first, in two's   *)
(* complement; the arithmetic wraps modulo 2^64 as Go's does.              *)
(***************************************************************************)
Zero64 == [i \in 1..8 |-> 0]

RECURSIVE MulAddFrom(_, _, _, _)
\* bytes i.. of x * k + c, and the carry out of the top byte
MulAddFrom(x, k, c, i) ==
  IF i > Len(x) THEN [val |-> <<>>, carry |-> c]
  ELSE LET t == x[i] * k + c
           rest == MulAddFrom(x, k, t \div 256, i + 1)
       IN  [val |-> <<t % 256>> \o rest.val, carry |-> rest.carry]

\* x * k + c for 0 <= k, c: the low 64 bits and what overflowed
MulAdd64(x, k, c) == MulAddFrom(x, k, c, 1)

\* -x
Neg64(x) == MulAdd64([i \in 1..8 |-> 255 - x[i]], 1, 1).val

\* x < 0
IsNeg64(x) == x[8] >= 128

\* x * k, wrapped
Mul64(x, k) == MulAdd64(x, k, 0).val

RECURSIVE DivFrom(_, _, _, _)
\* the unsigned x / d from byte i down, r the remainder so far: [q, r]
DivFrom(x, d, i, r) ==
  IF i = 0 THEN [q |-> <<>>, r |-> r]
  ELSE LET t == r * 256 + x[i]
           rest == DivFrom(x, d, i - 1, t % d)
       IN  [q |-> rest.q \o <<t \div d>>, r |-> rest.r]

\* the int64 of an integer of the model (|n| < 2^31)
Int64(n) ==
  LET mag == IF n < 0 THEN 0 - n ELSE n
      x == [i \in 1..8 |-> IF i <= 4 THEN (mag \div (256 ^ (i - 1))) % 256
                           ELSE 0]
  IN  IF n < 0 THEN Neg64(x) ELSE x

\* the integer of an int64 x with |x| < 2^31 (no value otherwise)
Small(x) ==
  LET mag == IF IsNeg64(x) THEN Neg64(x) ELSE x
      n == mag[1] + 256 * mag[2] + 65536 * mag[3] + 16777216 * mag[4]
  IN  IF mag[4] < 128 /\ \A i \in 5..8 : mag[i] = 0
        THEN (IF IsNeg64(x) THEN 0 - n ELSE n)
        ELSE CHOOSE k \in {} : TRUE

(***************************************************************************)
(* strconv.ParseInt(s, 10, 64) and strconv.FormatInt(n, 10).               *)
(***************************************************************************)
IsDigit(c) == c >= 48 /\ c <= 57

RECURSIVE DigitsValue(_, _)
\* the digits s read after acc: [val, ok], ok unless 64 bits overflowed
DigitsValue(s, acc) ==
  IF Len(s) = 0 \/ ~acc.ok THEN acc
  ELSE LET r == MulAdd64(acc.val, 10, s[1] - 48)
       IN  DigitsValue(Tail(s), [val |-> r.val,
                                 ok |-> acc.ok /\ r.carry = 0])

\* [ok, val]: an optional sign, then one or more decimal digits, in the
\* range of int64
ParseInt(s) ==
  LET signed == Len(s) > 0 /\ (s[1] = 43 \/ s[1] = 45)
      neg == signed /\ s[1] = 45
      digits == IF signed THEN Tail(s) ELSE s
      mag == DigitsValue(digits, [val |-> Zero64, ok |-> TRUE])
  IN  IF Len(digits) = 0 \/ \E i \in 1..Len(digits) : ~IsDigit(digits[i])
        THEN [ok |-> FALSE, val |-> Zero64]
      ELSE IF ~mag.ok \/ (IsNeg64(mag.val)
                           /\ ~(neg /\ mag.val = [Zero64 EXCEPT ![8] = 128]))
        THEN [ok |-> FALSE, val |-> Zero64]
      ELSE [ok |-> TRUE, val |-> IF neg THEN Neg64(mag.val) ELSE mag.val]

RECURSIVE FormatNat(_)
\* the decimal digits of the unsigned x
FormatNat(x) ==
  LET d == DivFrom(x, 10, 8, 0)
  IN  IF d.q = Zero64 THEN <<48 + d.r>> ELSE FormatNat(d.q) \o <<48 + d.r>>

FormatInt(x) ==
  IF IsNeg64(x) THEN <<45>> \o FormatNat(Neg64(x)) ELSE FormatNat(x)

\* Go's integer division truncates toward zero
QuoTrunc(a, b) ==
  IF IsNeg64(a) THEN Neg64(DivFrom(Neg64(a), b, 8, 0).q)
  ELSE DivFrom(a, b, 8, 0).q


(***************************************************************************)
(* The message codec.                                                      *)
(***************************************************************************)
\* the zero time.Time: Expiration of a message that carries none
ZeroTime == [zero |-> TRUE, ns |-> Zero64]

\* time.Unix(0, ns), ns an int64
UnixNs(n) == [zero |-> FALSE, ns |-> n]

\* &message{}
EmptyMessage ==
  [base |-> <<>>, Salt |-> <<>>, IV |-> <<>>, EncryptedBody |-> <<>>,
   Expiration |-> ZeroTime, HMACSalt |-> <<>>, HMAC |-> <<>>]

\* UnsealError{message}; the nil error is ""
ErrCount == "Incorrect number of sealed components"
ErrPrefix == "Wrong mac prefix"
ErrExpiration == "Invalid expiration time"
ErrEncoding == "Invalid component encoding"
ErrExpired == "Expired or invalid seal"
ErrHmac == "Bad hmac value"
UnsealErrors ==
  {ErrCount, ErrPrefix, ErrExpiration, ErrEncoding, ErrExpired, ErrHmac}

\* len(parts) != 8
WrongCountLoose(parts) == Len(parts) < 8
WrongCount(parts) == Len(parts) # 8

\* parts[0] != macPrefix
WrongPrefixLoose(p) == Len(p) # Len(macPrefix)
WrongPrefix(p) == p # macPrefix

\* exp * int64(time.Millisecond): the product wraps
MsToNs(exp) == Mul64(exp, Millisecond)

\* m.base = s[0 : len(s)-len(parts[7])-1-len(parts[6])-1]
SliceBaseRejoin(s, parts) ==
  Join(<<macPrefix, <<>>, parts[3], parts[4], parts[5], parts[6]>>)
SliceBase(s, parts) ==
  SubSeq(s, 1, Len(s) - Len(parts[8]) - 1 - Len(parts[7]) - 1)

\* Unpack with the expiration field read in units of `unit` nanoseconds:
\* [err, m], m the message as the receiver holds it on return
UnpackUnit(s, unit) ==
  LET parts == Split(s)
  IN
  IF WrongCount(parts) THEN [err |-> ErrCount, m |-> EmptyMessage]
  ELSE IF WrongPrefix(parts[1]) THEN [err |-> ErrPrefix, m |-> EmptyMessage]
  ELSE IF Len(parts[6]) > 0 /\ ~ParseInt(parts[6]).ok
    THEN [err |-> ErrExpiration, m |-> EmptyMessage]
  ELSE
    LET exp == IF Len(parts[6]) > 0
                 THEN UnixNs(IF unit = Millisecond
                               THEN MsToNs(ParseInt(parts[6]).val)
                               ELSE ParseInt(parts[6]).val)
                 ELSE ZeroTime
        iv == base64decodeInto(parts[4])
        body == base64decodeInto(parts[5])
        mac == base64decodeInto(parts[8])
        m0 == [EmptyMessage EXCEPT !.Expiration = exp, !.IV = iv.bytes,
                 !.EncryptedBody = body.bytes, !.HMAC = mac.bytes]
    IN
    IF ~iv.ok \/ ~body.ok \/ ~mac.ok THEN [err |-> ErrEncoding, m |-> m0]
    ELSE [err |-> "",
          m |-> [m0 EXCEPT
                   !.Salt = parts[3],
                   !.HMACSalt = parts[7],
                   !.base = SliceBase(s, parts)]]

\* message.Unpack of src/support.go: the expiration is in milliseconds
Unpack(s) == UnpackUnit(s, Millisecond)

\* message.Unpack of src/unnamed/part_000: time.Unix(0, exp), nanoseconds
Unpack_part000(s) == UnpackUnit(s, 1)

\* message.Base of src/support.go: the memoized base, else the six fields
BaseRebuilt(m) ==
  Join(<<macPrefix, <<>>, m.Salt, EncodeToString(m.IV),
         EncodeToString(m.EncryptedBody),
         IF m.Expiration.zero THEN <<>>
         ELSE FormatInt(QuoTrunc(m.Expiration.ns, Millisecond))>>)
Base(m) ==
  IF m.base # <<>> THEN m.base
  ELSE Join(<<macPrefix, <<>>, m.Salt, EncodeToString(m.IV),
              EncodeToString(m.EncryptedBody),
              IF m.Expiration.zero THEN <<>>
              ELSE FormatInt(QuoTrunc(m.Expiration.ns, Millisecond))>>)

\* the message after a call of Base(): the result is memoized
Memoized(m) == [m EXCEPT !.base = Base(m)]

\* message.Pack
Pack(m) == Join(<<Base(m), m.HMACSalt, EncodeToString(m.HMAC)>>)

(***************************************************************************)
(* Options and the vault.  The cipher factory and the hash are pluggable   *)
(* (Encryption.Cipher, Integrity.Hash); the model plugs in a small CBC     *)
(* cipher over blocks of BlockSize bytes and a hash of HashLen bytes.      *)
(***************************************************************************)
\* block size of the plugged cipher, in bytes
BlockSize == 2
\* digest size of the plugged hash, in bytes
HashLen == 2

\* a secret of 32 bytes
Secret32 == [i \in 1..32 |-> 97 + (i % 7)]

\* a nil *Encryption / *Integrity
Nil == [nil |-> TRUE]

\* the Options the model's vault is built from
Options(ttl) ==
  [Secret |-> Secret32, TTL |-> ttl,
   TimestampSkew |-> 2 * Millisecond, LocalTimeOffset |-> Millisecond,
   Encryption |-> [KeyBits |-> 8, Iterations |-> 1, SaltBits |-> 1,
                   IVBits |-> BlockSize],
   Integrity |-> [KeyBits |-> 8, Iterations |-> 1, SaltBits |-> 2]]

\* Options.fillDefaults of src/unnamed/part_002 (it panics on a short secret:
\* see SecretTooShort)
fillDefaults(o) ==
  [o EXCEPT
     !.TimestampSkew = IF @ = 0 THEN 60 * 1000 * Millisecond ELSE @,
     !.Encryption = IF @ = Nil
                      THEN [IVBits |-> 16, KeyBits |-> 256, Iterations |-> 1,
                            SaltBits |-> 32]
                      ELSE @,
     !.Integrity = IF @ = Nil
                     THEN [KeyBits |-> 256, Iterations |-> 1, SaltBits |-> 32]
                     ELSE @]

\* len(o.Secret) < 32: fillDefaults panics and New returns no vault
SecretTooShort(o) == Len(o.Secret) < 32

\* New(options)
New(o) == fillDefaults(o)

\* pbkdf2.Key(password, salt, iter, keyLen, sha1.New): a keyed checksum that
\* any one-bit change of the salt changes
PBKDF2(password, salt, iter, keyLen) ==
  [j \in 1..keyLen |->
     (SumWeighted(password \o salt, 1, Len(password) + Len(salt))
        + 31 * (j - 1) + iter) % 256]

\* Vault.generateKey
generateKey(v, keybits, iterations, salt) ==
  PBKDF2(v.Secret, salt, iterations, keybits \div 8)

\* hmac.New(hash, key); Write(data); Sum(nil): a keyed checksum of HashLen
\* bytes that any one-bit change of the key or of the data changes
HMACSum(key, data) ==
  LET n == (257 * SumWeighted(key, 1, Len(key))
             + SumWeighted(data, 1, Len(data))) % 65536
  IN  [j \in 1..HashLen |->
         IF j = HashLen THEN n % 256
         ELSE IF j = HashLen - 1 THEN n \div 256 ELSE 0]

\* operational (non-UnsealError) errors
ErrRand == "rand: read failed"
ErrCipher == "cipher: init failed"
ErrHashWrite == "hash: write failed"

\* Vault.hmacWithPassword; writeErr: h.Write returns an error
hmacWithPassword(v, salt, data, writeErr) ==
  LET key == generateKey(v, v.Integrity.KeyBits, v.Integrity.Iterations, salt)
  IN  IF writeErr THEN [digest |-> <<>>, err |-> ErrHashWrite]
      ELSE [digest |-> HMACSum(key, data), err |-> ""]

\* subtle.ConstantTimeCompare
ConstantTimeCompare(x, y) == IF x = y THEN 1 ELSE 0

RECURSIVE EncryptFrom(_, _, _)
\* the encrypting BlockMode: CryptBlocks over whole blocks, chained from prev
EncryptFrom(key, prev, p) ==
  IF Len(p) = 0 THEN <<>>
  ELSE LET c == [j \in 1..BlockSize |-> (p[j] + prev[j] + key[1]) % 256]
       IN  c \o EncryptFrom(key, c, SubSeq(p, BlockSize + 1, Len(p)))

\* the decrypting BlockMode: CryptBlocks(dst, src)
DecryptBlocks(key, iv, c) ==
  [i \in 1..Len(c) |->
     (c[i] - (IF i <= BlockSize THEN iv[i] ELSE c[i - BlockSize]) - key[1])
       % 256]

\* CryptBlocks panics on input that is not whole blocks, the block mode's
\* constructor on an IV that is not one block
CipherPanics(iv, src) == Len(iv) # BlockSize \/ Len(src) % BlockSize # 0

\* b = append(b, bytes.Repeat([]byte{padder}, size-len(b)%size)...)
AppendPadAligned(b) ==
  b \o Repeat((BlockSize - (Len(b) % BlockSize)) % BlockSize)
AppendPad(b) == b \o Repeat(BlockSize - (Len(b) % BlockSize))

\* Vault.encryptBlocks: pad with size - len(b)%size tabs, encrypt block by block
encryptBlocks(key, iv, b) == EncryptFrom(key, iv, AppendPad(b))

\* rand.Read: the n bytes the source yields after k bytes of the stream `seed`
RandRead(seed, k, n) == [i \in 1..n |-> (seed + 53 * (k + i)) % 256]

\* randBits(n): n bytes
randBits(n, seed, k) == RandRead(seed, k, n)

\* Vault.generateSalt(size): size is not read, Encryption.SaltBits is
generateSalt(v, size, seed, k) ==
  EncodeToString(randBits(v.Encryption.SaltBits, seed, k))

\* the steps of Seal that can fail
SealFaults == {"none", "rand_salt", "rand_iv", "cipher", "rand_hmacsalt", "hash"}

\* Vault.encrypt: [msg, err]
encrypt(v, b, seed, fault) ==
  LET salt == generateSalt(v, v.Encryption.SaltBits, seed, 0)
      key == generateKey(v, v.Encryption.KeyBits, v.Encryption.Iterations, salt)
      iv == randBits(v.Encryption.IVBits, seed, v.Encryption.SaltBits)
  IN  IF fault = "rand_salt" \/ fault = "rand_iv"
        THEN [msg |-> EmptyMessage, err |-> ErrRand]
      ELSE IF fault = "cipher" THEN [msg |-> EmptyMessage, err |-> ErrCipher]
      ELSE [msg |-> [EmptyMessage EXCEPT
                       !.EncryptedBody = encryptBlocks(key, iv, b),
                       !.IV = iv, !.Salt = salt],
            err |-> ""]

\* Vault.Seal at clock reading now: [token, err]
Seal(v, b, seed, now, fault) ==
  LET e == encrypt(v, b, seed, fault)
      msg == IF v.TTL > 0
               THEN [e.msg EXCEPT !.Expiration = UnixNs(Int64(now + v.TTL))]
               ELSE e.msg
      hmacSalt == generateSalt(v, v.Integrity.SaltBits, seed,
                               v.Encryption.SaltBits + v.Encryption.IVBits)
      mac == hmacWithPassword(v, hmacSalt, Base(msg), fault = "hash")
  IN  IF e.err # "" THEN [token |-> <<>>, err |-> e.err]
      ELSE IF fault = "rand_hmacsalt" THEN [token |-> <<>>, err |-> ErrRand]
      ELSE [token |-> Pack([Memoized(msg) EXCEPT !.HMACSalt = hmacSalt,
                                                  !.HMAC = mac.digest]),
            err |-> ""]

(***************************************************************************)
(* Unseal, step by step.  A call is a frame: the position of the call, the *)
(* build that runs it, its message, the clock reading it took, the digest  *)
(* it recomputed, its result, and the steps it has run.                    *)
(***************************************************************************)
Builds == {"part_002", "iron.go"}

\* no call in progress
IdleFrame ==
  [pc |-> "idle", build |-> "part_002", msg |-> EmptyMessage, now |-> 0,
   digest |-> <<>>, data |-> <<>>, err |-> "", steps |-> <<>>]

\* the frame on entry to Unseal(str)
EntryFrame == [IdleFrame EXCEPT !.pc = "parsing"]

\* a frame after one more step: `name` ran and passed or failed
After(f, name, ok) == [f EXCEPT !.steps = Append(@, [step |-> name, ok |-> ok])]

\* msg.Unpack(str), and the return on its error
StepParse(build, str) ==
  LET r == IF build = "iron.go" THEN Unpack_part000(str) ELSE Unpack(str)
      f == After([EntryFrame EXCEPT !.build = build], "parsing", r.err = "")
  IN  IF r.err # "" THEN [f EXCEPT !.pc = "failed", !.err = r.err]
      ELSE [f EXCEPT !.pc = "expiry-check", !.msg = r.m]

\* src/unnamed/part_002: delta := Expiration - (now + offset); delta < -skew
Expired(v, m, now) ==
  Small(m.Expiration.ns) - (now + v.LocalTimeOffset) < 0 - v.TimestampSkew

\* src/iron.go: delta := (now + offset) - Expiration;
\* delta > skew || delta < skew
Expired_iron(v, m, now) ==
  LET delta == (now + v.LocalTimeOffset) - Small(m.Expiration.ns)
  IN  delta > v.TimestampSkew \/ delta < v.TimestampSkew

\* "1. Check expiration" with the clock at now (read only when the message
\* carries an expiration)
StepExpiry(v, f, now) ==
  LET late == IF f.build = "iron.go" THEN Expired_iron(v, f.msg, now)
              ELSE Expired(v, f.msg, now)
  IN  IF f.msg.Expiration.zero
        THEN [After(f, "expiry-check", TRUE) EXCEPT !.pc = "mac-check"]
      ELSE IF late
        THEN [After(f, "expiry-check", FALSE) EXCEPT
                !.pc = "failed", !.now = now, !.err = ErrExpired]
      ELSE [After(f, "expiry-check", TRUE) EXCEPT
              !.pc = "mac-check", !.now = now]

\* subtle.ConstantTimeCompare(digest, msg.HMAC) == 0
MacFailsNever(digest, mac) == FALSE
MacFails(digest, mac) == ConstantTimeCompare(digest, mac) = 0

\* "2. Run the MAC digest" and "3. Check the HMAC"
StepMac(v, f, writeErr) ==
  LET r == hmacWithPassword(v, f.msg.HMACSalt, Base(f.msg), writeErr)
  IN  IF r.err # ""
        THEN [After(f, "mac-check", FALSE) EXCEPT !.pc = "failed", !.err = r.err]
      ELSE IF MacFails(r.digest, f.msg.HMAC)
        THEN [After(f, "mac-check", FALSE) EXCEPT
                !.pc = "failed", !.digest = r.digest, !.err = ErrHmac]
      ELSE [After(f, "mac-check", TRUE) EXCEPT
              !.pc = "decrypt", !.digest = r.digest]

\* Vault.decrypt of src/unnamed/part_002: [data, err]; the padding is trimmed
decrypt(v, m, cipherErr) ==
  LET key == generateKey(v, v.Encryption.KeyBits, v.Encryption.Iterations,
                         m.Salt)
  IN  IF cipherErr THEN [data |-> <<>>, err |-> ErrCipher]
      ELSE [data |-> TrimRight(DecryptBlocks(key, m.IV, m.EncryptedBody)),
            err |-> ""]

\* Vault.decrypt of src/iron.go: the decrypted blocks as they are
decrypt_iron(v, m, cipherErr) ==
  LET key == generateKey(v, v.Encryption.KeyBits, v.Encryption.Iterations,
                         m.Salt)
  IN  IF cipherErr THEN [data |-> <<>>, err |-> ErrCipher]
      ELSE [data |-> DecryptBlocks(key, m.IV, m.EncryptedBody), err |-> ""]

\* "4. Decrypt!"
StepDecrypt(v, f, cipherErr) ==
  LET r == IF f.build = "iron.go" THEN decrypt_iron(v, f.msg, cipherErr)
           ELSE decrypt(v, f.msg, cipherErr)
  IN  IF ~cipherErr /\ CipherPanics(f.msg.IV, f.msg.EncryptedBody)
        THEN [After(f, "decrypt", FALSE) EXCEPT !.pc = "panic"]
      ELSE IF r.err # ""
        THEN [After(f, "decrypt", FALSE) EXCEPT !.pc = "failed", !.err = r.err]
      ELSE [After(f, "decrypt", TRUE) EXCEPT !.pc = "done", !.data = r.data]

\* each stage of Unseal runs only when the one before it did not return
ThenExpiry(v, f, now) ==
  IF f.pc = "expiry-check" THEN StepExpiry(v, f, now) ELSE f

ThenMac(v, f, writeErr) ==
  IF f.pc = "mac-check" THEN StepMac(v, f, writeErr) ELSE f

ThenDecrypt(v, f, cipherErr) ==
  IF f.pc = "decrypt" THEN StepDecrypt(v, f, cipherErr) ELSE f

\* Vault.Unseal run to its return: the clock reads now, and the hash write
\* and the cipher factory fail as told
Unseal(v, build, str, now, writeErr, cipherErr) ==
  ThenDecrypt(v, ThenMac(v, ThenExpiry(v, StepParse(build, str), now),
                         writeErr), cipherErr)

(***************************************************************************)
(* The inputs of the model.                                                *)
(***************************************************************************)
\* payload bytes: the padding byte and a letter
PayloadBytes == {padder, 65}
Payloads == UNION {[1..n -> PayloadBytes] : n \in 0..MaxPayload}

\* streams of the random source
Seeds == {7, 200}

\* what time.Now() may return, in nanoseconds since the epoch
Times == {k * Millisecond + d : k \in 0..MaxMs, d \in {0, 1}}

\* the TTLs a vault of the model is built with
TTLs == {0, Millisecond}

\* bit k of byte c flipped
FlipBit(c, k) == IF (c \div (2 ^ k)) % 2 = 1 THEN c - 2 ^ k ELSE c + 2 ^ k
FlipAt(s, i, k) == [s EXCEPT ![i] = FlipBit(s[i], k)]

\* fields of a crafted string: "aa", "a%", "aa\n", "Fe27.2", "k", "5", "x"
CraftB64 == {<<97, 97>>, <<97, 37>>, <<97, 97, 10>>}
CraftPrefix == {macPrefix, <<70, 101, 50, 55, 46, 50>>}
CraftKeyId == {<<>>, <<107>>}
CraftExp == {<<>>, <<53>>, <<120>>}
Crafted ==
  {Join(SubSeq(<<p, k, <<97>>, iv, body, e, <<97>>, mac>>
               \o [i \in 1..(MaxParts - 8) |-> <<120>>], 1, n)) :
     p \in CraftPrefix, k \in CraftKeyId, iv \in CraftB64, body \in CraftB64,
     e \in CraftExp, mac \in CraftB64, n \in 0..MaxParts}

(***************************************************************************)
(* The state machine: one vault; a payload is sealed and the token is      *)
(* delivered as it is or with one bit flipped, or a string is crafted; the *)
(* receiver, running either build, unseals it step by step.                *)
(***************************************************************************)
\* v: the vault's options; sealed: the Seal call and its result; token: the
\* string handed to Unseal and origin: where it came from; u: the frame of
\* the Unseal call; heap: a byte array shared by the callers' payload slices
\* and gs: the concurrent calls on the vault (see SpecRace); call: a call
\* of one function of the package and what it returned (see SpecCalls)
VARIABLES v, sealed, token, origin, u, heap, gs, call

vars == <<v, sealed, token, origin, u, heap, gs, call>>

\* capacity of the shared byte array
RaceCap == 4
\* the array before any call
Heap0 == [i \in 1..RaceCap |-> 64 + i]
\* the concurrent callers
Goroutines == {1, 2}
\* a call of goroutine g on entry: Seal(heap[0:len]) or Unseal(token)
StartCall(op, len) ==
  [op |-> op, pc |-> "start", len |-> len, k |-> 0, shared |-> FALSE,
   b |-> <<>>, read |-> <<>>, res |-> <<>>]

NoSeal == [state |-> "none", payload |-> <<>>, fault |-> "none",
           token |-> <<>>, err |-> ""]

\* no function called
NoCall == [fn |-> "none"]

Init ==
  /\ v \in {New(Options(ttl)) : ttl \in TTLs}
  /\ ~SecretTooShort(v)
  /\ sealed = NoSeal
  /\ token = <<>>
  /\ origin = "none"
  /\ u = IdleFrame
  /\ heap = Heap0
  /\ gs = [g \in Goroutines |-> StartCall("Unseal", 0)]
  /\ call = NoCall

\* a caller seals a payload; time.Now() is read only when TTL > 0
SealCall ==
  /\ sealed.state = "none" /\ origin = "none"
  /\ \E b \in Payloads, seed \in Seeds, fault \in SealFaults,
        now \in IF v.TTL > 0 THEN {0, Millisecond} ELSE {0} :
       LET r == Seal(v, b, seed, now, fault)
       IN  sealed' = [state |-> "returned", payload |-> b, fault |-> fault,
                      token |-> r.token, err |-> r.err]
  /\ UNCHANGED <<v, token, origin, u, heap, gs, call>>

\* the sealed token reaches the receiver unchanged
Deliver ==
  /\ sealed.state = "returned" /\ sealed.err = "" /\ origin = "none"
  /\ token' = sealed.token
  /\ origin' = "sealed"
  /\ u' = EntryFrame
  /\ UNCHANGED <<v, sealed, heap, gs, call>>

\* the sealed token reaches the receiver with one bit flipped
Tamper ==
  /\ sealed.state = "returned" /\ sealed.err = "" /\ origin = "none"
  /\ \E i \in 1..Len(sealed.token), k \in 0..7 :
       token' = FlipAt(sealed.token, i, k)
  /\ origin' = "flipped"
  /\ u' = EntryFrame
  /\ UNCHANGED <<v, sealed, heap, gs, call>>

\* the receiver is handed a string that no Seal produced
Craft ==
  /\ sealed.state = "none" /\ origin = "none"
  /\ token' \in Crafted
  /\ origin' = "crafted"
  /\ u' = EntryFrame
  /\ UNCHANGED <<v, sealed, heap, gs, call>>

UnsealParse ==
  /\ u.pc = "parsing"
  /\ \E build \in Builds : u' = StepParse(build, token)
  /\ UNCHANGED <<v, sealed, token, origin, heap, gs, call>>

UnsealExpiry ==
  /\ u.pc = "expiry-check"
  /\ \E now \in IF u.msg.Expiration.zero THEN {0} ELSE Times :
       u' = StepExpiry(v, u, now)
  /\ UNCHANGED <<v, sealed, token, origin, heap, gs, call>>

UnsealMac ==
  /\ u.pc = "mac-check"
  /\ \E writeErr \in BOOLEAN : u' = StepMac(v, u, writeErr)
  /\ UNCHANGED <<v, sealed, token, origin, heap, gs, call>>

UnsealDecrypt ==
  /\ u.pc = "decrypt"
  /\ \E cipherErr \in BOOLEAN : u' = StepDecrypt(v, u, cipherErr)
  /\ UNCHANGED <<v, sealed, token, origin, heap, gs, call>>

Next ==
  \/ SealCall
  \/ Deliver
  \/ Tamper
  \/ Craft
  \/ UnsealParse
  \/ UnsealExpiry
  \/ UnsealMac
  \/ UnsealDecrypt

Spec == Init /\ [][Next]_vars

(***************************************************************************)
(* Concurrent use of one vault.  Two goroutines call Seal on slices        *)
(* heap[0:len] of one byte array of capacity RaceCap, or Unseal on a       *)
(* token.  Seal's append writes the padding into the slice's spare         *)
(* capacity when it fits, byte by byte, and into a fresh array when it     *)
(* does not; the encrypting loop then reads the slice block by block.      *)
(***************************************************************************)
\* the random stream of goroutine g's call
SeedOf(g) == IF g = 1 THEN 7 ELSE 200

\* the token the Unseal calls are handed
RaceToken == Seal(New(Options(0)), <<65>>, 7, 0, "none").token

\* the padding that append adds to a slice of n bytes
PadLen(n) == BlockSize - (n % BlockSize)

InitRace ==
  /\ v = New(Options(0))
  /\ sealed = NoSeal
  /\ token = RaceToken
  /\ origin = "none"
  /\ u = IdleFrame
  /\ heap = Heap0
  /\ gs \in [Goroutines ->
               {StartCall(op, n) : op \in {"Seal", "Unseal"}, n \in 0..RaceCap}]
  /\ call = NoCall

\* append(b, pad...): in place when the capacity allows, else a new array
\* that holds a copy of b and the padding
RaceAppend(g) ==
  /\ gs[g].op = "Seal" /\ gs[g].pc = "start"
  /\ gs' = [gs EXCEPT ![g] =
              IF gs[g].len + PadLen(gs[g].len) <= RaceCap
                THEN [@ EXCEPT !.pc = "pad", !.shared = TRUE]
                ELSE [@ EXCEPT !.pc = "crypt",
                               !.b = AppendPad(SubSeq(heap, 1, gs[g].len))]]
  /\ UNCHANGED <<v, sealed, token, origin, u, heap, call>>

\* one byte of the padding written past the end of the caller's slice
RacePad(g) ==
  /\ gs[g].pc = "pad"
  /\ heap' = [heap EXCEPT ![gs[g].len + gs[g].k + 1] = padder]
  /\ gs' = [gs EXCEPT ![g].k = @ + 1,
                      ![g].pc = IF gs[g].k + 1 = PadLen(gs[g].len)
                                  THEN "crypt" ELSE "pad"]
  /\ UNCHANGED <<v, sealed, token, origin, u, call>>

\* one iteration of the encrypting loop reads a block of b; after the last
\* one the call returns the token of the bytes it read
RaceCrypt(g) ==
  /\ gs[g].pc = "crypt"
  /\ LET src == IF gs[g].shared THEN heap ELSE gs[g].b
         i == Len(gs[g].read)
         read == gs[g].read \o SubSeq(src, i + 1, i + BlockSize)
         last == Len(read) = gs[g].len + PadLen(gs[g].len)
     IN  gs' = [gs EXCEPT
                  ![g].read = read,
                  ![g].pc = IF last THEN "done" ELSE "crypt",
                  ![g].res = IF last
                               THEN Seal(v, SubSeq(read, 1, gs[g].len),
                                         SeedOf(g), 0, "none").token
                               ELSE <<>>]
  /\ UNCHANGED <<v, sealed, token, origin, u, heap, call>>

\* Unseal works on its own message only
RaceUnseal(g) ==
  /\ gs[g].op = "Unseal" /\ gs[g].pc = "start"
  /\ gs' = [gs EXCEPT ![g].pc = "done",
                      ![g].res = Unseal(v, "part_002", token, 0,
                                        FALSE, FALSE).data]
  /\ UNCHANGED <<v, sealed, token, origin, u, heap, call>>

NextRace ==
  \E g \in Goroutines :
    \/ RaceAppend(g)
    \/ RacePad(g)
    \/ RaceCrypt(g)
    \/ RaceUnseal(g)

SpecRace == InitRace /\ [][NextRace]_vars

(***************************************************************************)
(* Direct calls of the package's functions: one call, on inputs from the   *)
(* sets below, and what it returned.                                       *)
(***************************************************************************)
\* largest size randBits is asked for
MaxBits == 17

\* Options{Secret: ..., TimestampSkew: ...}: Encryption and Integrity are nil
\* and New fills in the defaults
DefaultOptions == [Options(0) EXCEPT !.Encryption = Nil, !.Integrity = Nil]

InitCalls ==
  /\ v = New(DefaultOptions)
  /\ sealed = NoSeal
  /\ token = <<>>
  /\ origin = "none"
  /\ u = IdleFrame
  /\ heap = Heap0
  /\ gs = [g \in Goroutines |-> StartCall("Unseal", 0)]
  /\ call = NoCall

\* randBits(n)
CallRandBits ==
  /\ call = NoCall
  /\ \E n \in 0..MaxBits, seed \in Seeds :
       call' = [fn |-> "randBits", n |-> n, out |-> randBits(n, seed, 0)]
  /\ UNCHANGED <<v, sealed, token, origin, u, heap, gs>>

\* v.encrypt(b) on the vault of the default options: the salt and the IV
\* it drew
CallEncrypt ==
  /\ call = NoCall
  /\ \E b \in Payloads, seed \in Seeds :
       LET e == encrypt(v, b, seed, "none")
       IN  call' = [fn |-> "encrypt", b |-> b, Salt |-> e.msg.Salt,
                    IV |-> e.msg.IV, err |-> e.err]
  /\ UNCHANGED <<v, sealed, token, origin, u, heap, gs>>

\* v.encryptBlocks(block, b), block the encrypting mode of key and iv:
\* b after the append, and the bytes returned
CallEncryptBlocks ==
  /\ call = NoCall
  /\ \E b \in Payloads, seed \in Seeds, k \in {3, 250} :
       LET iv == randBits(BlockSize, seed, 0)
       IN  call' = [fn |-> "encryptBlocks", key |-> <<k>>, iv |-> iv,
                    size |-> BlockSize, b |-> b, padded |-> AppendPad(b),
                    out |-> encryptBlocks(<<k>>, iv, b)]
  /\ UNCHANGED <<v, sealed, token, origin, u, heap, gs>>

\* the messages Pack and Base are called on: every field empty or set
\* ("base", "s", "iv", "body", "hmacsalt", "hmac")
Messages ==
  [base : {<<>>, <<98, 97, 115, 101>>},
   Salt : {<<>>, <<115>>},
   IV : {<<>>, <<105, 118>>},
   EncryptedBody : {<<>>, <<98, 111, 100, 121>>},
   Expiration : {ZeroTime, UnixNs(Int64(0)),
                 UnixNs(Int64(5 * Millisecond + 1))},
   HMACSalt : {<<>>, <<104, 109, 97, 99, 115, 97, 108, 116>>},
   HMAC : {<<>>, <<104, 109, 97, 99>>}]

\* m.Pack() and m.Base(): the string returned and the message afterwards
CallPack ==
  /\ call = NoCall
  /\ \E m \in Messages :
       call' = [fn |-> "Pack", m |-> m, out |-> Pack(m), after |-> Memoized(m)]
  /\ UNCHANGED <<v, sealed, token, origin, u, heap, gs>>

CallBase ==
  /\ call = NoCall
  /\ \E m \in Messages :
       call' = [fn |-> "Base", m |-> m, out |-> Base(m), after |-> Memoized(m)]
  /\ UNCHANGED <<v, sealed, token, origin, u, heap, gs>>

\* the decimal whose digits are ds (a negative entry stands for "-")
Decimal(ds) == [i \in 1..Len(ds) |-> IF ds[i] < 0 THEN 45 ELSE 48 + ds[i]]

\* expiration fields: none, 0, 5, -1, +5, x, the largest number of
\* milliseconds whose nanoseconds fit int64 and the next one, the ends of
\* int64 and the numbers next to them
ExpFields ==
  {<<>>, Decimal(<<0>>), Decimal(<<5>>), Decimal(<<-1, 1>>), <<43, 53>>,
   <<120>>,
   Decimal(<<9, 2, 2, 3, 3, 7, 2, 0, 3, 6, 8, 5, 4>>),
   Decimal(<<9, 2, 2, 3, 3, 7, 2, 0, 3, 6, 8, 5, 5>>),
   Decimal(<<-1, 9, 2, 2, 3, 3, 7, 2, 0, 3, 6, 8, 5, 4>>),
   Decimal(<<-1, 9, 2, 2, 3, 3, 7, 2, 0, 3, 6, 8, 5, 5>>),
   Decimal(<<9, 2, 2, 3, 3, 7, 2, 0, 3, 6, 8, 5, 4, 7, 7, 5, 8, 0, 7>>),
   Decimal(<<9, 2, 2, 3, 3, 7, 2, 0, 3, 6, 8, 5, 4, 7, 7, 5, 8, 0, 8>>),
   Decimal(<<-1, 9, 2, 2, 3, 3, 7, 2, 0, 3, 6, 8, 5, 4, 7, 7, 5, 8, 0, 8>>),
   Decimal(<<-1, 9, 2, 2, 3, 3, 7, 2, 0, 3, 6, 8, 5, 4, 7, 7, 5, 8, 0, 9>>)}

\* m.Unpack(s) on a string whose other fields are valid, by either build,
\* and m.Base() of src/support.go on a message with the Expiration it set
\* and no memoized base
CallUnpack ==
  /\ call = NoCall
  /\ \E e \in ExpFields, build \in Builds, salt \in {<<97>>, <<98>>} :
       LET s == Join(<<macPrefix, <<>>, salt, <<97, 97>>, <<97, 97>>, e,
                       <<97>>, <<97, 97>>>>)
           r == IF build = "iron.go" THEN Unpack_part000(s) ELSE Unpack(s)
       IN  call' = [fn |-> "Unpack", build |-> build, s |-> s, field |-> e,
                    err |-> r.err, m |-> r.m,
                    rebuilt |-> Base([EmptyMessage EXCEPT
                                        !.Expiration = r.m.Expiration])]
  /\ UNCHANGED <<v, sealed, token, origin, u, heap, gs>>

NextCalls ==
  \/ CallRandBits
  \/ CallEncrypt
  \/ CallEncryptBlocks
  \/ CallPack
  \/ CallBase
  \/ CallUnpack

SpecCalls == InitCalls /\ [][NextCalls]_vars

(***************************************************************************)
(* Vocabulary of the properties.                                           *)
(***************************************************************************)
\* errors that are not UnsealErrors
Operational == {ErrRand, ErrCipher, ErrHashWrite}

\* the Unseal call has returned
Returned == u.pc \in {"done", "failed"}

\* the number of '*' in s
CountDelims(s) == Cardinality({i \in 1..Len(s) : s[i] = delimiter})

\* s begins with the field Fe26.2
HasMacPrefix(s) ==
  /\ Len(s) > Len(macPrefix)
  /\ SubSeq(s, 1, Len(macPrefix)) = macPrefix
  /\ s[Len(macPrefix) + 1] = delimiter

\* the wire format's unpadded base64url: alphabet characters only, and a
\* length that some byte string encodes to
ValidB64Url(s) ==
  /\ \A i \in 1..Len(s) : B64Val(s[i]) # -1
  /\ Len(s) % 4 # 1

\* the HMAC that token s carries is the HMAC of its base under the vault's
\* secret and the token's HMAC salt
HmacVerifies(s) ==
  LET m == Unpack(s).m
  IN  /\ Unpack(s).err = ""
      /\ m.HMAC = hmacWithPassword(v, m.HMACSalt, m.base, FALSE).digest

\* the order of the steps of Unseal
StageOrder == <<"parsing", "expiry-check", "mac-check", "decrypt">>

(***************************************************************************)
(* C1. Round-trip: Unseal of the token Seal(P) returned, on the same       *)
(* vault, returns exactly P and no error, for every payload P, those that  *)
(* end in 0x09 included.  (No step of Seal or Unseal failed operationally  *)
(* and the token has not expired.)                                         *)
(***************************************************************************)
C1_RoundTrip ==
  (/\ origin = "sealed" /\ sealed.fault = "none" /\ u.build = "part_002"
   /\ Returned /\ u.err \notin Operational /\ u.err # ErrExpired)
  => (u.pc = "done" /\ u.err = "" /\ u.data = sealed.payload)

\* what the build does instead: the payload comes back without its trailing
\* 0x09 bytes
C1_RoundTripUpToTabs ==
  (/\ origin = "sealed" /\ sealed.fault = "none" /\ u.build = "part_002"
   /\ Returned /\ u.err \notin Operational /\ u.err # ErrExpired)
  => (u.pc = "done" /\ u.err = "" /\ u.data = TrimRight(sealed.payload))

(***************************************************************************)
(* C2. Expiration skew: a well-formed token with a non-empty expiration    *)
(* t_exp (milliseconds on the wire) whose HMAC verifies unseals when       *)
(* now - t_exp <= TimestampSkew, now being the clock plus LocalTimeOffset, *)
(* and fails with "Expired or invalid seal" when now - t_exp > skew.       *)
(***************************************************************************)
C2_Claim(builds) ==
  LET m == Unpack(token).m
      late == (u.now + v.LocalTimeOffset) - Small(m.Expiration.ns)
                > v.TimestampSkew
  IN  (/\ u.build \in builds /\ Returned /\ u.err \notin Operational
       /\ HmacVerifies(token) /\ ~m.Expiration.zero)
      => /\ late => (u.pc = "failed" /\ u.err = ErrExpired)
         /\ ~late => (u.pc = "done" /\ u.err = "")

C2_ExpirationSkew == C2_Claim(Builds)

\* the same, of the build of src/unnamed/part_002 alone
C2_ExpirationSkew_part002 == C2_Claim({"part_002"})

(***************************************************************************)
(* C3. Unseal runs parse, expiry check, HMAC check, decrypt in this order  *)
(* and stops at the first failure: no step runs after a failed one, and    *)
(* the cipher runs only after the HMAC recomputed over Base() under the    *)
(* key derived from HMACSalt compared equal to the token's HMAC.           *)
(***************************************************************************)
C3_CheckOrder ==
  LET n == Len(u.steps)
  IN  /\ n <= Len(StageOrder)
      /\ \A i \in 1..n : u.steps[i].step = StageOrder[i]
      /\ \A i \in 1..(n - 1) : u.steps[i].ok
      /\ (u.pc = "failed") = (n > 0 /\ ~u.steps[n].ok)
      /\ n = Len(StageOrder) =>
           /\ u.digest = u.msg.HMAC
           /\ u.digest = HMACSum(generateKey(v, v.Integrity.KeyBits,
                                             v.Integrity.Iterations,
                                             u.msg.HMACSalt),
                                 Base(u.msg))

\* a call on a sealed token that reached the cipher and returned
C3_Witness ==
  /\ u.pc = "done" /\ Len(u.steps) = 4 /\ u.digest = u.msg.HMAC
  /\ origin = "sealed"

(***************************************************************************)
(* C4. Non-malleability: Unseal of an accepted token with one bit flipped  *)
(* never returns a payload; it fails with "Bad hmac value" or "Invalid     *)
(* component encoding", whichever field or delimiter the bit is in.        *)
(* C4_FlippedNeverAccepted is the first half, C4_NonMalleable the whole.   *)
(***************************************************************************)
C4_FlippedNeverAccepted ==
  (origin = "flipped" /\ sealed.fault = "none") => u.pc # "done"

C4_NonMalleable ==
  (/\ origin = "flipped" /\ sealed.fault = "none"
   /\ Returned /\ u.err \notin Operational)
  => (u.pc = "failed" /\ u.err \in {ErrHmac, ErrEncoding})

(***************************************************************************)
(* C5. Delimiter count: Unpack, and so Unseal, of a string whose number of *)
(* '*' is not 7 (the empty string included) fails with "Incorrect number   *)
(* of sealed components", whatever else the string holds.                  *)
(***************************************************************************)
C5_DelimiterCount ==
  (Len(u.steps) > 0 /\ CountDelims(token) # 7)
  => (u.pc = "failed" /\ u.err = ErrCount /\ Len(u.steps) = 1)

\* a string of nine fields that begins with Fe26.2 was rejected
C5_Witness ==
  /\ u.pc = "failed" /\ u.err = ErrCount
  /\ CountDelims(token) = 8 /\ HasMacPrefix(token)

(***************************************************************************)
(* C6. Prefix check: Unpack, and so Unseal, of a string of eight fields    *)
(* whose first field is not Fe26.2 fails with "Wrong mac prefix", whether  *)
(* or not its expiration and base64url fields are valid.                   *)
(***************************************************************************)
C6_PrefixCheck ==
  (Len(u.steps) > 0 /\ CountDelims(token) = 7 /\ ~HasMacPrefix(token))
  => (u.pc = "failed" /\ u.err = ErrPrefix /\ Len(u.steps) = 1)

\* a string with a wrong prefix, an invalid expiration and an invalid iv
C6_Witness ==
  /\ u.pc = "failed" /\ u.err = ErrPrefix /\ CountDelims(token) = 7
  /\ ~ParseInt(Split(token)[6]).ok
  /\ ~ValidB64Url(Split(token)[4])

(***************************************************************************)
(* C7. With eight fields, the prefix Fe26.2 and an expiration that is      *)
(* empty or a decimal integer, a field iv, body or hmac that is not valid  *)
(* unpadded base64url makes Unpack, and so Unseal, fail with "Invalid      *)
(* component encoding", before any expiry check or HMAC computation.       *)
(***************************************************************************)
C7_InvalidEncodingRejected ==
  LET parts == Split(token)
  IN  (/\ Len(u.steps) > 0 /\ CountDelims(token) = 7 /\ HasMacPrefix(token)
       /\ (parts[6] = <<>> \/ ParseInt(parts[6]).ok)
       /\ \E i \in {4, 5, 8} : ~ValidB64Url(parts[i]))
      => (u.pc = "failed" /\ u.err = ErrEncoding /\ Len(u.steps) = 1)

\* the same, of fields that are invalid even with their CR and LF removed
C7_InvalidEncodingRejected_IgnoringNewlines ==
  LET parts == Split(token)
  IN  (/\ Len(u.steps) > 0 /\ CountDelims(token) = 7 /\ HasMacPrefix(token)
       /\ (parts[6] = <<>> \/ ParseInt(parts[6]).ok)
       /\ \E i \in {4, 5, 8} : ~ValidB64Url(SkipNewlines(parts[i])))
      => (u.pc = "failed" /\ u.err = ErrEncoding /\ Len(u.steps) = 1)

(***************************************************************************)
(* C8. Seal produces no token on failure: when a step of Seal fails (the   *)
(* random source for the salt, the IV or the HMAC salt, the cipher         *)
(* factory, the hash write) Seal returns an error and the empty string,    *)
(* and a token returned with a nil error carries the HMAC of its base.     *)
(***************************************************************************)
C8_SealFailsClosed ==
  sealed.state = "returned" =>
    /\ sealed.fault # "none" => (sealed.err # "" /\ sealed.token = <<>>)
    /\ sealed.err = "" => HmacVerifies(sealed.token)

(***************************************************************************)
(* C9. Concurrent use of one vault is safe: under every interleaving of    *)
(* Seal and Unseal calls no call writes the vault's options, the bytes of  *)
(* a caller's payload slice are not written, and each call returns what it *)
(* returns when run alone.  (Checked under SpecRace.)                      *)
(***************************************************************************)
\* what goroutine g's call returns when it runs alone
Alone(g) ==
  IF gs[g].op = "Seal"
    THEN Seal(New(Options(0)), SubSeq(Heap0, 1, gs[g].len), SeedOf(g), 0,
              "none").token
    ELSE Unseal(New(Options(0)), "part_002", RaceToken, 0, FALSE, FALSE).data

C9_ConcurrentUseSafe ==
  /\ v = New(Options(0))
  /\ \A g \in Goroutines :
       gs[g].op = "Seal" => \A i \in 1..gs[g].len : heap[i] = Heap0[i]
  /\ \A g \in Goroutines : gs[g].pc = "done" => gs[g].res = Alone(g)

\* the bytes a Seal call encrypts are the bytes it read from its slice
\* followed by the padding
C9_ReadsArePadded ==
  \A g \in Goroutines :
    (gs[g].op = "Seal" /\ gs[g].pc = "done")
    => gs[g].read = AppendPad(SubSeq(gs[g].read, 1, gs[g].len))

(***************************************************************************)
(* C10. Padding trim: the payload a successful Unseal returns is the       *)
(* decrypted body without its trailing 0x09 bytes; it never ends in 0x09.  *)
(***************************************************************************)
C10_Claim(builds) ==
  (u.pc = "done" /\ u.build \in builds)
  => /\ u.data = TrimRight(DecryptBlocks(
                   generateKey(v, v.Encryption.KeyBits,
                               v.Encryption.Iterations, u.msg.Salt),
                   u.msg.IV, u.msg.EncryptedBody))
     /\ (Len(u.data) = 0 \/ u.data[Len(u.data)] # padder)

C10_PaddingTrimmed == C10_Claim(Builds)

\* the same, of the build of src/unnamed/part_002 alone
C10_PaddingTrimmed_part002 == C10_Claim({"part_002"})

(***************************************************************************)
(* C11. Random source size: asked for n bits the random source returns     *)
(* exactly n/8 bytes, so with the default configuration Seal draws an IV   *)
(* of Encryption.IVBits/8 = 16 bytes and its salt from SaltBits/8 = 32     *)
(* random bytes.  (Checked under SpecCalls.)                               *)
(***************************************************************************)
C11_RandomSourceSize ==
  /\ call.fn = "randBits" => Len(call.out) = call.n \div 8
  /\ call.fn = "encrypt" =>
       /\ Len(call.IV) = v.Encryption.IVBits \div 8
       /\ Len(call.IV) = 16
       /\ Len(DecodeString(call.Salt).bytes) = v.Encryption.SaltBits \div 8
       /\ Len(DecodeString(call.Salt).bytes) = 32

\* what the code does: asked for n it returns n bytes, and the defaults of
\* src/unnamed/part_002 make that 16 bytes of IV and 32 bytes of salt
C11_BytesNotBits ==
  /\ call.fn = "randBits" => Len(call.out) = call.n
  /\ call.fn = "encrypt" =>
       /\ Len(call.IV) = 16 /\ v.Encryption.IVBits = 16
       /\ Len(DecodeString(call.Salt).bytes) = 32
       /\ v.Encryption.SaltBits = 32

(***************************************************************************)
(* C12. Block padding on seal: to a plaintext of length L encryptBlocks    *)
(* appends B - (L mod B) bytes 0x09, B the block size: between 1 and B     *)
(* bytes, a full block when L is a multiple of B; what is encrypted has a  *)
(* length that is a positive multiple of B, and so has the ciphertext.     *)
(* (Checked under SpecCalls.)                                              *)
(***************************************************************************)
C12_BlockPadding ==
  call.fn = "encryptBlocks" =>
    LET L == Len(call.b)
        B == call.size
        n == Len(call.padded) - L
    IN  /\ n = B - (L % B)
        /\ n >= 1 /\ n <= B
        /\ (L % B = 0) => n = B
        /\ call.padded =
             [i \in 1..(L + n) |-> IF i <= L THEN call.b[i] ELSE padder]
        /\ Len(call.padded) > 0 /\ Len(call.padded) % B = 0
        /\ Len(call.out) = Len(call.padded)
        /\ DecryptBlocks(call.key, call.iv, call.out) = call.padded

\* a plaintext of one whole block got a block of padding
C12_Witness ==
  /\ call.fn = "encryptBlocks"
  /\ Len(call.b) = call.size
  /\ Len(call.out) = 2 * call.size

(***************************************************************************)
(* C13. Pack returns Base() "*" HMACSalt "*" base64url(HMAC).  Base() is   *)
(* the memoized base when that is not empty, and else Fe26.2, the empty    *)
(* key-id, Salt, base64url(IV), base64url(EncryptedBody) and the           *)
(* expiration or nothing, joined by "*", which it memoizes.  Pack of the   *)
(* empty message is Fe26.2******* and Pack of the message whose only       *)
(* field is the base "base" is base**.  (Checked under SpecCalls.)         *)
(***************************************************************************)
C13_ExpectedBase(m) ==
  LET star == <<delimiter>>
      exp == IF m.Expiration.zero THEN <<>>
             ELSE FormatInt(QuoTrunc(m.Expiration.ns, Millisecond))
  IN  IF m.base # <<>> THEN m.base
      ELSE macPrefix \o star \o star \o m.Salt \o star
             \o EncodeToString(m.IV) \o star
             \o EncodeToString(m.EncryptedBody) \o star \o exp

C13_PackFormat ==
  /\ call.fn = "Base" =>
       /\ call.out = C13_ExpectedBase(call.m)
       /\ call.after = [call.m EXCEPT !.base = call.out]
  /\ call.fn = "Pack" =>
       /\ call.out = C13_ExpectedBase(call.m) \o <<delimiter>>
                       \o call.m.HMACSalt \o <<delimiter>>
                       \o EncodeToString(call.m.HMAC)
       /\ call.after = [call.m EXCEPT !.base = C13_ExpectedBase(call.m)]
       /\ call.m = EmptyMessage =>
            call.out = <<70, 101, 50, 54, 46, 50, 42, 42, 42, 42, 42, 42, 42>>
       /\ call.m = [EmptyMessage EXCEPT !.base = <<98, 97, 115, 101>>] =>
            call.out = <<98, 97, 115, 101, 42, 42>>
       /\ call.m = [EmptyMessage EXCEPT !.HMAC = <<104, 109, 97, 99>>] =>
            call.out = <<70, 101, 50, 54, 46, 50, 42, 42, 42, 42, 42, 42, 42,
                         97, 71, 49, 104, 89, 119>>

\* Pack of the message whose only field is the base "base" returned base**
C13_Witness ==
  /\ call.fn = "Pack"
  /\ call.m = [EmptyMessage EXCEPT !.base = <<98, 97, 115, 101>>]
  /\ call.out = <<98, 97, 115, 101, 42, 42>>

(***************************************************************************)
(* C14. MAC base of an unpacked token: after a successful Unpack(s),       *)
(* Base() is the first six fields of s joined by "*", cut out of s and     *)
(* not re-encoded from the decoded fields (s is Base() "*" field 6 "*"     *)
(* field 7), whatever the key-id is, and Unseal computes the HMAC over     *)
(* exactly that string.                                                    *)
(***************************************************************************)
C14_MacBaseIsPrefix ==
  (Len(u.steps) >= 1 /\ u.steps[1].ok) =>
    LET f == Split(token)
        star == <<delimiter>>
        six == f[1] \o star \o f[2] \o star \o f[3] \o star \o f[4]
                 \o star \o f[5] \o star \o f[6]
    IN  /\ Len(f) = 8
        /\ u.msg.base = six
        /\ Base(u.msg) = six
        /\ token = Base(u.msg) \o star \o f[7] \o star \o f[8]
        /\ (Len(u.steps) >= 3 /\ u.err \notin Operational) =>
             u.digest = HMACSum(generateKey(v, v.Integrity.KeyBits,
                                            v.Integrity.Iterations, f[7]),
                                six)

\* the HMAC was computed for a token with a key-id and a field that does
\* not decode and re-encode to itself
C14_Witness ==
  /\ Len(u.steps) >= 3 /\ u.err \notin Operational
  /\ Len(Split(token)[2]) > 0
  /\ BaseRebuilt(u.msg) # u.msg.base
  /\ EncodeToString(u.msg.IV) # Split(token)[4]

(***************************************************************************)
(* C15. Expiration wire conversion: for every signed 64-bit decimal e in   *)
(* field 5, Unpack sets Expiration to the instant exactly e milliseconds   *)
(* after the Unix epoch (the conversion to nanoseconds does not wrap), and *)
(* Base() rebuilt from a message with that Expiration writes the decimal   *)
(* e; an empty field 5 leaves Expiration zero and is written back empty.   *)
(* (Checked under SpecCalls.)                                              *)
(***************************************************************************)
\* the int64 ns is exactly e * 10^6: it divides by 10^6 without remainder
\* and the quotient is e
C15_IsMillis(ns, e) ==
  /\ DivFrom(IF IsNeg64(ns) THEN Neg64(ns) ELSE ns, Millisecond, 8, 0).r = 0
  /\ QuoTrunc(ns, Millisecond) = e

C15_Claim(builds) ==
  (call.fn = "Unpack" /\ call.build \in builds) =>
    LET e == ParseInt(call.field)
    IN  /\ (call.field = <<>>) =>
             /\ call.err = "" /\ call.m.Expiration = ZeroTime
             /\ Split(call.rebuilt)[6] = <<>>
        /\ (call.field # <<>> /\ e.ok) =>
             /\ call.err = "" /\ ~call.m.Expiration.zero
             /\ C15_IsMillis(call.m.Expiration.ns, e.val)
             /\ Split(call.rebuilt)[6] = FormatInt(e.val)

C15_ExpirationWireConversion == C15_Claim(Builds)

\* the same, of the build of src/support.go alone
C15_ExpirationWireConversion_support == C15_Claim({"part_002"})

\* what src/support.go does: the claim's statement for the fields whose
\* nanoseconds fit int64, and for the others the wrapped product
C15_ExactUnlessProductOverflows ==
  (call.fn = "Unpack" /\ call.build = "part_002" /\ call.field # <<>>
   /\ ParseInt(call.field).ok) =>
    LET e == ParseInt(call.field).val
        mag == IF IsNeg64(e) THEN Neg64(e) ELSE e
        p == MulAdd64(mag, Millisecond, 0)
        fits == p.carry = 0 /\ ~IsNeg64(p.val)
    IN  /\ call.err = ""
        /\ call.m.Expiration.ns = Mul64(e, Millisecond)
        /\ fits => /\ C15_IsMillis(call.m.Expiration.ns, e)
                    /\ Split(call.rebuilt)[6] = FormatInt(e)
        /\ ~fits => ~C15_IsMillis(call.m.Expiration.ns, e)

=============================================================================
